---- MODULE Spec2Model ----
(***************************************************************************)
(* A model of convert.py, the number-conversion commands of a text-editor  *)
(* plugin: BinToDec, BinToHex, DecToBin, DecToHex, HexToBin, HexToDec,      *)
(* ExpToDec and DecToExp.                                                   *)
(*                                                                          *)
(* Text is a sequence of one-character strings.  A region is a record      *)
(* [a, b] of offsets into the text, as sublime.Region.  An operation that   *)
(* can raise a Python exception yields a record whose ok field is FALSE.    *)
(***************************************************************************)
EXTENDS Integers, Sequences, FiniteSets, TLC

VARIABLES
    text,       \* the view's buffer
    sels,       \* view.sel(): the selection regions, in document order
    settings,   \* view.settings(): key -> configured value
    cmd,        \* the command of the current invocation
    pc,         \* position in the command's run method
    i,          \* index in view.sel() of the selection the loop is at
    cur,        \* the local variable sel (ExpToDec, DecToExp)
    base,       \* the local variable base (DecToExp)
    exp,        \* the local variable exp (DecToExp)
    num_skip,   \* the local variable num_skip
    status,     \* the messages passed to sublime.status_message, in order
    replaced,   \* history: indices whose selection view.replace was called for
    runs,       \* history: one record per finished invocation
    start       \* history: text and selections when the invocation began

vars == <<text, sels, settings, cmd, pc, i, cur, base, exp,
          num_skip, status, replaced, runs, start>>

----------------------------------------------------------------------------
(* Bounds of the model *)

\* longest run of binary digits among the generated documents
MaxBits == 4
\* largest magnitude among the generated decimal integer documents
MaxDec == 10
\* most selections in view.sel()
MaxSels == 2
\* most invocations in one behaviour
MaxRuns == 2
\* longest selected text a command converts in the model (its value then fits
\* the model's integers); at a longer one the run leaves the model
MaxToken == 6
\* exp is tracked down to -ExpCap and up to ExpCap, which no loop that ends
\* reaches in the model; a loop that runs on keeps the capped value (no loop
\* condition reads exp)
ExpCap == 16

----------------------------------------------------------------------------
(* Characters *)

DigitChars == {"0", "1", "2", "3", "4", "5", "6", "7", "8", "9"}
LowerChars == {"a", "b", "c", "d", "e", "f", "h", "x", "z"}
UpperChars == {"A", "B", "E", "F", "X", "Z"}
PunctChars == {"-", "+", ".", "'"}
SpaceChars == {" "}

\* the characters documents are written in
Alphabet == DigitChars \cup LowerChars \cup UpperChars \cup PunctChars \cup SpaceChars

\* what view.substr(point) yields outside the buffer
NUL == "NUL"

HexDigitSeq == <<"0", "1", "2", "3", "4", "5", "6", "7", "8", "9",
                 "a", "b", "c", "d", "e", "f">>
HexUpperSeq == <<"0", "1", "2", "3", "4", "5", "6", "7", "8", "9",
                 "A", "B", "C", "D", "E", "F">>

\* the regular expression classes \w, [01], [0-9a-f] (\d is DigitChars)
WordChars == DigitChars \cup LowerChars \cup UpperChars
BinChars == {"0", "1"}
\* [0-9a-f] under re.IGNORECASE
HexAnyCaseChars == DigitChars \cup {"a", "b", "c", "d", "e", "f", "A", "B", "C", "D", "E", "F"}

HexLowerChars == DigitChars \cup {"a", "b", "c", "d", "e", "f"}

----------------------------------------------------------------------------
(* Sequence helpers *)

Max(S) == CHOOSE x \in S : \A y \in S : y <= x
Min(S) == CHOOSE x \in S : \A y \in S : x <= y

\* s[from..], 1-based
Drop(s, n) == SubSeq(s, n + 1, Len(s))
Take(s, n) == SubSeq(s, 1, n)

\* s starts with p
StartsWith(s, p) == Len(s) >= Len(p) /\ Take(s, Len(p)) = p

\* the number of characters of the set chars that s holds from 0-based
\* offset k on, without a break
RECURSIVE Run(_, _, _)
Run(s, k, chars) ==
    IF k < Len(s) /\ s[k + 1] \in chars THEN 1 + Run(s, k + 1, chars) ELSE 0

\* the character at 0-based offset p of s, NUL outside
At(s, p) == IF p >= 0 /\ p < Len(s) THEN s[p + 1] ELSE NUL

RECURSIVE Pow10(_)
Pow10(n) == IF n <= 0 THEN 1 ELSE 10 * Pow10(n - 1)

RECURSIVE NumDigits(_)
NumDigits(n) == IF n < 10 THEN 1 ELSE 1 + NumDigits(n \div 10)

----------------------------------------------------------------------------
(* Python built-ins: str.strip, str.rstrip, int, str, str.format *)

Raise == [ok |-> FALSE, val |-> 0]
Ok(v) == [ok |-> TRUE, val |-> v]

RECURSIVE RStrip(_, _)
RStrip(s, chars) ==
    IF Len(s) > 0 /\ s[Len(s)] \in chars THEN RStrip(Take(s, Len(s) - 1), chars) ELSE s

RECURSIVE LStrip(_, _)
LStrip(s, chars) ==
    IF Len(s) > 0 /\ s[1] \in chars THEN LStrip(Tail(s), chars) ELSE s

\* str.strip(): whitespace off both ends
Strip(s) == LStrip(RStrip(s, SpaceChars), SpaceChars)

\* the value of a digit character in bases up to 16, 16 for any other character
DigitVal(c) ==
    IF \E k \in 1..16 : HexDigitSeq[k] = c
    THEN (CHOOSE k \in 1..16 : HexDigitSeq[k] = c) - 1
    ELSE IF \E k \in 1..16 : HexUpperSeq[k] = c
         THEN (CHOOSE k \in 1..16 : HexUpperSeq[k] = c) - 1
         ELSE 16

RECURSIVE Horner(_, _, _)
Horner(s, b, acc) ==
    IF s = <<>> THEN acc ELSE Horner(Tail(s), b, acc * b + DigitVal(s[1]))

\* int(s, b) for a string of digits (what the source patterns capture): the
\* value, or a ValueError when s is empty or holds a character that is no
\* digit of base b
PyIntDigits(s, b) ==
    IF Len(s) > 0 /\ \A k \in 1..Len(s) : DigitVal(s[k]) < b
    THEN Ok(Horner(s, b, 0))
    ELSE Raise

\* int(s): whitespace stripped, an optional sign, then decimal digits
PyInt(s) ==
    LET t == Strip(s)
        signed == Len(t) > 0 /\ t[1] \in {"-", "+"}
        body == IF signed THEN Tail(t) ELSE t
        r == PyIntDigits(body, 10)
    IN  IF ~r.ok THEN Raise
        ELSE IF signed /\ t[1] = "-" THEN Ok(0 - r.val) ELSE r

RECURSIVE DigitsOf(_, _, _)
DigitsOf(n, b, table) ==
    IF n < b THEN <<table[n + 1]>>
    ELSE Append(DigitsOf(n \div b, b, table), table[(n % b) + 1])

Sign(n) == IF n < 0 THEN <<"-">> ELSE <<>>
Abs(n) == IF n < 0 THEN 0 - n ELSE n

\* str(n) of an int
PyStr(n) == Sign(n) \o DigitsOf(Abs(n), 10, HexDigitSeq)

\* format(n, spec) of an int for the format specs the templates use; a
\* ValueError for an unknown format code
PyFormatSpec(n, spec) ==
    CASE spec = ""   -> Ok(PyStr(n))
      [] spec = "d"  -> Ok(PyStr(n))
      [] spec = "b"  -> Ok(Sign(n) \o DigitsOf(Abs(n), 2, HexDigitSeq))
      [] spec = "x"  -> Ok(Sign(n) \o DigitsOf(Abs(n), 16, HexDigitSeq))
      [] spec = "#x" -> Ok(Sign(n) \o <<"0", "x">> \o DigitsOf(Abs(n), 16, HexDigitSeq))
      [] spec = "X"  -> Ok(Sign(n) \o DigitsOf(Abs(n), 16, HexUpperSeq))
      [] OTHER       -> Raise

----------------------------------------------------------------------------
(* Python floats.  A float is a record [kind, neg, m, e]: kind "fin" is the *)
(* value (-1)^neg * m * 10^e with m not divisible by 10 (m = 0, e = 0 for  *)
(* a zero); kind "inf" is an infinity of that sign; kind "nan" is a NaN.   *)
(* The arithmetic is decimal.  A float operation rounds to 53 bits, so its  *)
(* result prints as the decimal result for some operands only; NormExact   *)
(* and ProdExact below name operands for which it does, and a run that     *)
(* computes with others leaves the model.                                  *)

\* the decimal exponents between which a float is finite and non-zero
FloatMaxExp == 308
FloatMinExp == -324

Zero(neg) == [kind |-> "fin", neg |-> neg, m |-> 0, e |-> 0]
Inf(neg) == [kind |-> "inf", neg |-> neg, m |-> 0, e |-> 0]
NaN == [kind |-> "nan", neg |-> FALSE, m |-> 0, e |-> 0]

\* the first four decimal digits of m
Lead4(m) ==
    LET d == NumDigits(m)
    IN  IF d >= 4 THEN m \div Pow10(d - 4) ELSE m * Pow10(4 - d)

RECURSIVE Normal(_, _, _)
Normal(neg, m, e) ==
    IF m = 0 THEN Zero(neg)
    ELSE IF m % 10 = 0 THEN Normal(neg, m \div 10, e + 1)
    ELSE [kind |-> "fin", neg |-> neg, m |-> m, e |-> e]

\* the float nearest to (-1)^neg * m * 10^e: an infinity above the largest
\* float (1.797...e308), a zero below the smallest
FloatOf(neg, m, e) ==
    LET v == Normal(neg, m, e)
        top == v.e + NumDigits(v.m) - 1
    IN  IF v.m = 0 THEN v
        ELSE IF top > FloatMaxExp \/ (top = FloatMaxExp /\ Lead4(v.m) > 1797)
             THEN Inf(neg)
        ELSE IF top < FloatMinExp THEN Zero(neg)
        ELSE v

\* float(s) from the exponent on: u holds nf digits after the point and
\* its mantissa ends at offset endm
FloatExponent(u, neg, digits, nf, endm, estart) ==
    LET hasexp == At(u, endm) \in {"e", "E"}
        ne == Run(u, estart, DigitChars)
        ev == Horner(SubSeq(u, estart + 1, estart + ne), 10, 0)
    IN  IF ~hasexp
        THEN IF endm = Len(u) THEN Ok(FloatOf(neg, Horner(digits, 10, 0), 0 - nf)) ELSE Raise
        ELSE IF ne = 0 \/ estart + ne # Len(u) THEN Raise
        ELSE Ok(FloatOf(neg, Horner(digits, 10, 0),
                        (IF At(u, endm + 1) = "-" THEN 0 - ev ELSE ev) - nf))

\* float(s) from the mantissa on: ni digits, then nf digits after a point
FloatMantissa(u, neg, ni, nf, endm) ==
    IF ni + nf = 0 THEN Raise
    ELSE FloatExponent(u, neg, SubSeq(u, 1, ni) \o SubSeq(u, ni + 2, ni + 1 + nf), nf, endm,
                       IF At(u, endm + 1) \in {"-", "+"} THEN endm + 2 ELSE endm + 1)

FloatUnsigned(u, neg, ni) ==
    IF At(u, ni) = "."
    THEN FloatMantissa(u, neg, ni, Run(u, ni + 1, DigitChars),
                       ni + 1 + Run(u, ni + 1, DigitChars))
    ELSE FloatMantissa(u, neg, ni, 0, ni)

FloatSigned(t) ==
    IF Len(t) > 0 /\ t[1] \in {"-", "+"}
    THEN FloatUnsigned(Tail(t), t[1] = "-", Run(Tail(t), 0, DigitChars))
    ELSE FloatUnsigned(t, FALSE, Run(t, 0, DigitChars))

\* float(s): whitespace stripped, an optional sign, digits with an optional
\* point (digits on at least one side of it), an optional exponent
PyFloat(s) == FloatSigned(Strip(s))

\* v > 10 and v < 1, as the float comparisons (false of a NaN)
FloatGt10(v) ==
    CASE v.kind = "nan" -> FALSE
      [] v.kind = "inf" -> ~v.neg
      [] OTHER -> /\ ~v.neg
                  /\ v.m > 0
                  /\ LET top == v.e + NumDigits(v.m) - 1
                     IN  top > 1 \/ (top = 1 /\ v.m # 1)

FloatLt1(v) ==
    CASE v.kind = "nan" -> FALSE
      [] v.kind = "inf" -> v.neg
      [] OTHER -> v.neg \/ v.m = 0 \/ v.e + NumDigits(v.m) - 1 < 0

\* v / 10 and v * 10
FloatDiv10(v) == IF v.kind = "fin" THEN FloatOf(v.neg, v.m, v.e - 1) ELSE v
FloatMul10(v) == IF v.kind = "fin" THEN FloatOf(v.neg, v.m, v.e + 1) ELSE v

\* values whose quotients and products by 10 print as the decimal ones,
\* as <<m, e>>: 1420, 14.2, 0.5, 0.005, 0.0015
ExactQuotients == {<<142, 1>>, <<142, -1>>, <<5, -1>>, <<5, -3>>, <<15, -4>>}

\* the loops "while base > 10: base /= 10" and "while base < 1: base *= 10"
\* on v compute as in decimal: v is not finite, zero or negative (no loop
\* that ends), in 1..10 (no iteration), an integer of at most two digits
\* before its zeros (a quotient that is no integer is the last one), or listed
NormExact(v) ==
    \/ v.kind # "fin"
    \/ v.m = 0
    \/ v.neg
    \/ v.e + NumDigits(v.m) - 1 = 0
    \/ v.m = 1 /\ v.e = 1
    \/ v.e >= 0 /\ v.m < 100 /\ v.e + NumDigits(v.m) - 1 <= 15
    \/ <<v.m, v.e>> \in ExactQuotients

\* products mantissa * 10 ** x that print as the decimal ones, as <<m, e, x>>:
\* 1.42e3, 1.42e1, 1.5e1, 1.5e-3, 1.0e1
ExactProducts == {<<142, -2, 3>>, <<142, -2, 1>>, <<15, -1, 1>>, <<15, -1, -3>>,
                  <<1, 0, 1>>}

\* mantissa * 10 ** x computes as in decimal: a zero, a product by 10 ** 0, or
\* listed
ProdExact(v, x) ==
    \/ v.m = 0
    \/ x = 0
    \/ <<v.m, v.e, x>> \in ExactProducts

\* mantissa * 10 ** x for x = float(g) of a signed run of digits g: an
\* OverflowError of ** when 10 ** x is no float
FloatTimesPow10(v, x) ==
    IF x > FloatMaxExp THEN Raise
    ELSE IF x < FloatMinExp THEN Ok(Zero(v.neg))
    ELSE IF v.kind = "fin" THEN Ok(FloatOf(v.neg, v.m, v.e + x))
    ELSE Ok(v)

\* round(v, n): to n digits after the point, a tie to the even digit
PyRound(v, n) ==
    IF v.kind # "fin" \/ v.e >= 0 - n THEN v
    ELSE LET k == (0 - n) - v.e
         IN  IF k > NumDigits(v.m) THEN Zero(v.neg)
             ELSE LET q == v.m \div Pow10(k)
                      r == v.m % Pow10(k)
                      up == 2 * r > Pow10(k) \/ (2 * r = Pow10(k) /\ q % 2 = 1)
                  IN  Normal(v.neg, IF up THEN q + 1 ELSE q, 0 - n)

RECURSIVE Zeros(_)
Zeros(n) == IF n <= 0 THEN <<>> ELSE <<"0">> \o Zeros(n - 1)

\* str(v) of a float: the shortest digits that read back as v, positional
\* when the leading digit's exponent is in -4..15, else d.ddde+XX
PyStrFloat(v) ==
    LET sgn == IF v.neg THEN <<"-">> ELSE <<>>
        D == DigitsOf(v.m, 10, HexDigitSeq)
        d == Len(D)
        top == v.e + d - 1
        xd == DigitsOf(Abs(top), 10, HexDigitSeq)
    IN  CASE v.kind = "nan" -> <<"n", "a", "n">>
          [] v.kind = "inf" -> sgn \o <<"i", "n", "f">>
          [] v.kind = "fin" /\ v.m = 0 -> sgn \o <<"0", ".", "0">>
          [] OTHER ->
             sgn \o
             (IF top >= -4 /\ top <= 15
              THEN IF v.e >= 0 THEN D \o Zeros(v.e) \o <<".", "0">>
                   ELSE IF top >= 0
                        THEN SubSeq(D, 1, d + v.e) \o <<".">> \o SubSeq(D, d + v.e + 1, d)
                        ELSE <<"0", ".">> \o Zeros(0 - top - 1) \o D
              ELSE <<D[1]>> \o (IF d > 1 THEN <<".">> \o Tail(D) ELSE <<>>)
                   \o <<"e", IF top < 0 THEN "-" ELSE "+">>
                   \o (IF Len(xd) < 2 THEN <<"0">> ELSE <<>>) \o xd)

----------------------------------------------------------------------------
(* Configuration: the defaults, view.settings() and load_pattern *)

CONVERT_DST_BIN_DFLT == "{0:b}"
CONVERT_DST_HEX_DFLT == "{0:#x}"
CONVERT_DST_EXP_DFLT == "e"
CONVERT_SRC_BIN_DFLT == "\\b(?:0b)?([01]+)\\b"
CONVERT_SRC_HEX_DFLT == "\\b(?:0x)?([0-9a-f]+)h?\\b"
CONVERT_SRC_EXP_DFLT == "\\b(\\d+\\.\\d+)e([-+]?\\d+)\\b"

\* the configured values of the model besides the defaults: the example
\* configuration's quoted binaries, a source that matches the empty string,
\* one that does not compile, templates with a format code int lacks
QuotedBinSrc == "'B([01]+)'"
EmptySrc == ""
BadSrc == "([01]+"
QuotedBinDst == "'B{0:b}'"
QuotedHexDst == "'B{0:X}'"
BadDst == "{0:q}"
CustomExpDst == "EX"

Keys == {"convert_src_bin", "convert_dst_bin", "convert_src_hex",
         "convert_dst_hex", "convert_src_exp", "convert_dst_exp"}

\* a settings value: unset, a string, or a value of another JSON type
Unset == [set |-> FALSE, isStr |-> FALSE, v |-> ""]
StrValue(x) == [set |-> TRUE, isStr |-> TRUE, v |-> x]
NumValue == [set |-> TRUE, isStr |-> FALSE, v |-> "7"]

\* view.settings().get(name, default)
SettingsGet(st, name, default) == IF st[name].set THEN st[name] ELSE StrValue(default)

\* re.compile(x) returns: x is a string and a well-formed expression
Compiles(x) == x.isStr /\ x.v # BadSrc

\* load_pattern without its try/except: the configured value as it is
load_pattern_unguarded(st, name, default) == SettingsGet(st, name, default).v

\* load_pattern(view, name, default): the pattern string of the compiled
\* expression; any exception of re.compile gives the default's
load_pattern(st, name, default) ==
    LET x == SettingsGet(st, name, default)
    IN  IF Compiles(x) THEN x.v ELSE default

\* r.pattern[0]: an IndexError on the empty pattern
PatternFirst(p) ==
    CASE p = EmptySrc -> Raise
      [] p = QuotedBinSrc -> Ok("'")
      [] OTHER -> Ok("\\")

----------------------------------------------------------------------------
(* Regular expressions: r.match(s), anchored at offset 0 of s and free at   *)
(* its end.  A match is [ok, groups]; the longest repetition that lets the  *)
(* rest of the expression match wins, as backtracking finds it.             *)

NoMatch == [ok |-> FALSE, groups |-> <<>>]
Matched(groups) == [ok |-> TRUE, groups |-> groups]

\* \b at offset p of s
Boundary(s, p) == (At(s, p - 1) \in WordChars) # (At(s, p) \in WordChars)

\* ([01]+)\b from offset k0
BinTail(s, k0) ==
    LET n == Run(s, k0, BinChars)
        ks == {k \in 1..n : Boundary(s, k0 + k)}
    IN  IF ks = {} THEN NoMatch ELSE Matched(<<SubSeq(s, k0 + 1, k0 + Max(ks))>>)

\* \b(?:0b)?([01]+)\b
MatchSrcBin(s) ==
    IF ~Boundary(s, 0) THEN NoMatch
    ELSE IF StartsWith(s, <<"0", "b">>) /\ BinTail(s, 2).ok THEN BinTail(s, 2)
    ELSE BinTail(s, 0)

\* ([0-9a-f]+)h?\b from offset k0
HexTail(s, k0) ==
    LET n == Run(s, k0, HexLowerChars)
        ks == {k \in 1..n : \/ At(s, k0 + k) = "h" /\ Boundary(s, k0 + k + 1)
                            \/ Boundary(s, k0 + k)}
    IN  IF ks = {} THEN NoMatch ELSE Matched(<<SubSeq(s, k0 + 1, k0 + Max(ks))>>)

\* \b(?:0x)?([0-9a-f]+)h?\b
MatchSrcHex(s) ==
    IF ~Boundary(s, 0) THEN NoMatch
    ELSE IF StartsWith(s, <<"0", "x">>) /\ HexTail(s, 2).ok THEN HexTail(s, 2)
    ELSE HexTail(s, 0)

\* \b(\d+\.\d+)e([-+]?\d+)\b
MatchSrcExp(s) ==
    LET n1 == Run(s, 0, DigitChars)
        n2 == Run(s, n1 + 1, DigitChars)
        e0 == n1 + 1 + n2
        x0 == IF At(s, e0 + 1) \in {"-", "+"} THEN e0 + 2 ELSE e0 + 1
        n3 == Run(s, x0, DigitChars)
        ks == {k \in 1..n3 : Boundary(s, x0 + k)}
    IN  IF /\ Boundary(s, 0)
           /\ n1 >= 1 /\ At(s, n1) = "."
           /\ n2 >= 1 /\ At(s, e0) = "e"
           /\ ks # {}
        THEN Matched(<<SubSeq(s, 1, e0), SubSeq(s, e0 + 2, x0 + Max(ks))>>)
        ELSE NoMatch

\* 'B([01]+)'
MatchQuotedBin(s) ==
    LET n == Run(s, 2, BinChars)
    IN  IF At(s, 0) = "'" /\ At(s, 1) = "B" /\ n >= 1 /\ At(s, 2 + n) = "'"
        THEN Matched(<<SubSeq(s, 3, 2 + n)>>)
        ELSE NoMatch

\* r.match(s) for the compiled pattern p
Match(p, s) ==
    CASE p = CONVERT_SRC_BIN_DFLT -> MatchSrcBin(s)
      [] p = CONVERT_SRC_HEX_DFLT -> MatchSrcHex(s)
      [] p = CONVERT_SRC_EXP_DFLT -> MatchSrcExp(s)
      [] p = QuotedBinSrc -> MatchQuotedBin(s)
      [] OTHER -> Matched(<<>>)

\* match.group(n): an AttributeError when match is None, an IndexError when
\* the expression has no group n
Group(match, n) ==
    IF match.ok /\ n <= Len(match.groups) THEN Ok(match.groups[n]) ELSE Raise

\* dst_format.format(n): an AttributeError when dst_format is no string, a
\* ValueError for a format code int lacks
PyFormat(dst, n) ==
    IF ~dst.isStr THEN Raise
    ELSE CASE dst.v = CONVERT_DST_BIN_DFLT -> PyFormatSpec(n, "b")
           [] dst.v = CONVERT_DST_HEX_DFLT -> PyFormatSpec(n, "#x")
           [] dst.v = QuotedBinDst ->
                Ok(<<"'", "B">> \o PyFormatSpec(n, "b").val \o <<"'">>)
           [] dst.v = QuotedHexDst ->
                Ok(<<"'", "B">> \o PyFormatSpec(n, "X").val \o <<"'">>)
           [] dst.v = BadDst -> PyFormatSpec(n, "q")

----------------------------------------------------------------------------
(* The host: regions, view.substr, view.word, view.replace, view.sel()      *)

Region(a, b) == [a |-> a, b |-> b]
Empty(r) == r.a = r.b
Clamp(t, p) == IF p < 0 THEN 0 ELSE IF p > Len(t) THEN Len(t) ELSE p

\* view.substr(region)
Substr(t, r) == SubSeq(t, Clamp(t, r.a) + 1, Clamp(t, r.b))

\* the number of characters of the set chars that s holds before 0-based
\* offset k, without a break
RECURSIVE RunBack(_, _, _)
RunBack(s, k, chars) ==
    IF k > 0 /\ s[k] \in chars THEN 1 + RunBack(s, k - 1, chars) ELSE 0

\* view.word(region) of an empty region: the word the point is in or next to
ViewWord(t, r) ==
    LET p == Clamp(t, r.a)
    IN  Region(p - RunBack(t, p, WordChars), p + Run(t, p, WordChars))

\* the buffer after view.replace(edit, region, new)
Replace(t, r, new) == Take(t, Clamp(t, r.a)) \o new \o Drop(t, Clamp(t, r.b))

\* where the host puts offset p of a selection after the characters of
\* [a, b) became n characters
Shift(p, a, b, n) ==
    IF p <= a THEN p
    ELSE IF p >= b THEN p + n - (b - a)
    ELSE IF p < a + n THEN p ELSE a + n

\* view.sel() after view.replace(edit, region, new): the host keeps each
\* selection on the text it was on
SelsAfter(ss, t, r, new) ==
    LET a == Clamp(t, r.a)
        b == Clamp(t, r.b)
    IN  [k \in 1..Len(ss) |->
           Region(Shift(ss[k].a, a, b, Len(new)), Shift(ss[k].b, a, b, Len(new)))]

----------------------------------------------------------------------------
(* The inputs: documents, selections and settings the model starts from     *)

\* every run of 1..MaxBits binary digits
BinDocs == UNION {[1..n -> BinChars] : n \in 1..MaxBits}

\* every decimal integer of magnitude up to MaxDec, as str prints it
DecDocs == {PyStr(n) : n \in (0 - MaxDec)..MaxDec}

\* tokens of each domain and texts around them
MenuDocs ==
    {<<"0", "x", "1", "A", "h">>,
     <<"0", "x", "1", "a", "h">>,
     <<"1", "0", "h">>,
     <<"f", "f">>,
     <<"F", "F">>,
     <<"1", "A">>,
     <<"0", "x", "0">>,
     <<"-", "0", "x", "1", "a">>,
     <<"1", "0", "-", "1">>,
     <<" ", "5", " ">>,
     <<"+", "5">>,
     <<"0", "0", "7">>,
     <<"z">>,
     <<"1", ".", "4", "2", "e", "3">>,
     <<"1", "4", "2", "0">>,
     <<"1", "0", "0", "0">>,
     <<"0", ".", "0", "0", "5">>,
     <<"1", "4", ".", "2">>,
     <<"1", ".", "5", "e", "-", "3">>,
     <<"5", "e", "0">>,
     <<"1", "e", "4", "0", "0">>,
     <<"-", "0">>,
     <<"0", ".", "5">>,
     <<"1", ".", "0", "e", "1">>,
     <<"2", ".", "5">>,
     <<>>}

\* the documents that open with several selections
MultiDocs ==
    {<<"f", "f", " ", "z", "z">>,
     <<"1", "1", " ", "1", "1">>,
     <<"7", " ", "x", " ", "2">>}

\* the documents that open under a configuration other than the default
ConfigDocs ==
    {<<"1", "0">>,
     <<"'", "B", "1", "0", "'">>,
     <<"f", "f">>,
     <<"1", ".", "5", "e", "1">>,
     <<"1", "5">>,
     <<"z">>}

Docs == BinDocs \cup DecDocs \cup MenuDocs \cup MultiDocs \cup ConfigDocs

\* the regions selections are drawn from: the cursors, and the ranges that
\* open at the start of the buffer or after a space
AllRegions(t) ==
    {Region(a, b) : a, b \in 0..Len(t)} \ {r \in {Region(a, b) : a, b \in 0..Len(t)} :
        r.a > r.b \/ (r.a < r.b /\ r.a > 0 /\ t[r.a] \notin SpaceChars)}

\* r1 lies before r2, as the host keeps selections: apart, or touching when
\* neither is a bare cursor
Before(r1, r2) == r1.b < r2.a \/ (r1.b = r2.a /\ ~Empty(r1) /\ ~Empty(r2))

\* the selections a document opens with: in MultiDocs up to MaxSels regions
\* of any extent, elsewhere a cursor or the whole buffer
SelChoices(t) ==
    IF t \in MultiDocs
    THEN {ss \in UNION {[1..n -> AllRegions(t)] : n \in 1..MaxSels} :
             \A k \in 1..(Len(ss) - 1) : Before(ss[k], ss[k + 1])}
    ELSE {<<r>> : r \in {Region(a, a) : a \in 0..Len(t)} \cup {Region(0, Len(t))}}

DefaultSettings == [k \in Keys |-> Unset]

\* the values a key is configured with
Configurable ==
    {<<"convert_src_bin", StrValue(QuotedBinSrc)>>,
     <<"convert_src_bin", StrValue(EmptySrc)>>,
     <<"convert_src_bin", StrValue(BadSrc)>>,
     <<"convert_src_bin", NumValue>>,
     <<"convert_src_hex", StrValue(BadSrc)>>,
     <<"convert_src_exp", StrValue(BadSrc)>>,
     <<"convert_dst_bin", StrValue(QuotedBinDst)>>,
     <<"convert_dst_bin", StrValue(BadDst)>>,
     <<"convert_dst_hex", StrValue(QuotedHexDst)>>,
     <<"convert_dst_hex", StrValue(BadDst)>>,
     <<"convert_dst_hex", NumValue>>,
     <<"convert_dst_exp", StrValue(CustomExpDst)>>,
     <<"convert_dst_exp", NumValue>>}

\* the settings with one key configured
CustomSettings == {[DefaultSettings EXCEPT ![kv[1]] = kv[2]] : kv \in Configurable}

Commands == {"BinToDec", "BinToHex", "DecToBin", "DecToHex",
             "HexToBin", "HexToDec", "ExpToDec", "DecToExp"}

Init ==
    /\ text \in Docs
    /\ settings \in {DefaultSettings} \cup (IF text \in ConfigDocs THEN CustomSettings ELSE {})
    /\ sels \in SelChoices(text)
    /\ cmd = "none"
    /\ pc = "idle"
    /\ i = 0
    /\ cur = Region(0, 0)
    /\ base = Zero(FALSE)
    /\ exp = 0
    /\ num_skip = 0
    /\ status = <<>>
    /\ replaced = {}
    /\ runs = <<>>
    /\ start = [text |-> text, sels |-> sels, nstatus |-> 0]

----------------------------------------------------------------------------
(* The body of a command's loop, for one selection of the buffer t: what   *)
(* the try block ends with.  Ok([region, out]) is a call of                 *)
(* view.replace(edit, region, out); Raise is the except branch.             *)

\* "if sel.empty(): sel = view.word(sel)", and for a source pattern that
\* opens with a quote one more character on each side
ExpandQuoted(t, sel, r) ==
    IF ~Empty(sel) THEN Ok(sel)
    ELSE LET w == ViewWord(t, sel)
             first == PatternFirst(r)
         IN  IF ~first.ok THEN Raise
             ELSE IF first.val = "'" THEN Ok(Region(w.a - 1, w.b + 1))
             ELSE Ok(w)

\* "if sel.empty(): sel = view.word(sel)" of the decimal commands
ExpandWord(t, sel) == IF Empty(sel) THEN ViewWord(t, sel) ELSE sel

\* int(match.group(1), b) of r.match(view.substr(sel)), with the region
MatchInt(t, sel, r, b) ==
    LET ex == ExpandQuoted(t, sel, r)
    IN  IF ~ex.ok THEN Raise
        ELSE LET g == Group(Match(r, Substr(t, ex.val)), 1)
             IN  IF ~g.ok THEN Raise
                 ELSE LET n == PyIntDigits(g.val, b)
                      IN  IF ~n.ok THEN Raise
                          ELSE Ok([region |-> ex.val, n |-> n.val])

\* int(view.substr(sel).strip()), with the region
StripInt(t, sel) ==
    LET region == ExpandWord(t, sel)
        n == PyInt(Strip(Substr(t, region)))
    IN  IF ~n.ok THEN Raise ELSE Ok([region |-> region, n |-> n.val])

\* the replacement of a parsed value by str(n)
WithStr(parsed) ==
    IF ~parsed.ok THEN Raise
    ELSE Ok([region |-> parsed.val.region, out |-> PyStr(parsed.val.n)])

\* the replacement of a parsed value by dst_format.format(n)
WithFormat(parsed, dst) ==
    IF ~parsed.ok THEN Raise
    ELSE LET f == PyFormat(dst, parsed.val.n)
         IN  IF ~f.ok THEN Raise
             ELSE Ok([region |-> parsed.val.region, out |-> f.val])

BinToDecBody(t, sel, st) ==
    WithStr(MatchInt(t, sel, load_pattern(st, "convert_src_bin", CONVERT_SRC_BIN_DFLT), 2))

\* BinToHexBody reading the digits in base 10
BinToHexBodyBase10(t, sel, st) ==
    WithFormat(MatchInt(t, sel, load_pattern(st, "convert_src_bin", CONVERT_SRC_BIN_DFLT), 10),
               SettingsGet(st, "convert_dst_hex", CONVERT_DST_HEX_DFLT))

BinToHexBody(t, sel, st) ==
    WithFormat(MatchInt(t, sel, load_pattern(st, "convert_src_bin", CONVERT_SRC_BIN_DFLT), 2),
               SettingsGet(st, "convert_dst_hex", CONVERT_DST_HEX_DFLT))

DecToBinBody(t, sel, st) ==
    WithFormat(StripInt(t, sel), SettingsGet(st, "convert_dst_bin", CONVERT_DST_BIN_DFLT))

DecToHexBody(t, sel, st) ==
    WithFormat(StripInt(t, sel), SettingsGet(st, "convert_dst_hex", CONVERT_DST_HEX_DFLT))

HexToBinBody(t, sel, st) ==
    WithFormat(MatchInt(t, sel, load_pattern(st, "convert_src_hex", CONVERT_SRC_HEX_DFLT), 16),
               SettingsGet(st, "convert_dst_bin", CONVERT_DST_BIN_DFLT))

HexToDecBody(t, sel, st) ==
    WithStr(MatchInt(t, sel, load_pattern(st, "convert_src_hex", CONVERT_SRC_HEX_DFLT), 16))

\* the int a float of a signed run of digits stands for
FloatInt(v) == IF v.neg THEN 0 - v.m * Pow10(v.e) ELSE v.m * Pow10(v.e)

\* "str(result).rstrip('0').rstrip('.')" of the product
ExpResult(region, prod) ==
    IF ~prod.ok THEN Raise
    ELSE Ok([region |-> region,
             out |-> RStrip(RStrip(PyStrFloat(PyRound(prod.val, 18)), {"0"}), {"."})])

\* "float(match.group(1)) * 10 ** float(match.group(2))"
ExpProduct(region, mant, x) ==
    IF ~mant.ok \/ ~x.ok THEN Raise
    ELSE ExpResult(region, FloatTimesPow10(mant.val, FloatInt(x.val)))

ExpGroups(region, g1, g2) ==
    IF ~g1.ok \/ ~g2.ok THEN Raise
    ELSE ExpProduct(region, PyFloat(g1.val), PyFloat(g2.val))

ExpMatch(region, match) == ExpGroups(region, Group(match, 1), Group(match, 2))

\* the product of ExpToDec is one the model does not compute
ExpBeyondValues(mant, x) ==
    mant.ok /\ x.ok /\ FloatInt(x.val) <= FloatMaxExp
    /\ ~ProdExact(mant.val, FloatInt(x.val))

ExpBeyondGroups(g1, g2) ==
    g1.ok /\ g2.ok /\ ExpBeyondValues(PyFloat(g1.val), PyFloat(g2.val))

ExpBeyondMatch(match) == ExpBeyondGroups(Group(match, 1), Group(match, 2))

ExpBeyond(t, region, st) ==
    \/ Len(Substr(t, region)) > MaxToken
    \/ ExpBeyondMatch(Match(load_pattern(st, "convert_src_exp", CONVERT_SRC_EXP_DFLT),
                            Substr(t, region)))

\* ExpToDec from "validate selection" on, for the expanded region
ExpToDecBody(t, region, st) ==
    ExpMatch(region, Match(load_pattern(st, "convert_src_exp", CONVERT_SRC_EXP_DFLT),
                           Substr(t, region)))

\* DecToExp from "convert base to string" on
DecToExpBody(region, b, x, st) ==
    LET dst == SettingsGet(st, "convert_dst_exp", CONVERT_DST_EXP_DFLT)
        marker == IF dst.v = CONVERT_DST_EXP_DFLT THEN <<"e">> ELSE <<"E", "X">>
    IN  IF ~dst.isStr THEN Raise
        ELSE Ok([region |-> region,
                 out |-> RStrip(RStrip(PyStrFloat(b), {"0"}), {"."}) \o marker \o PyStr(x)])

\* the characters the expansion loops of ExpToDec and DecToExp run over
ScanChars(c) ==
    IF c = "ExpToDec"
    THEN DigitChars \cup {".", "e", "E", "x", "X", "-"}
    ELSE DigitChars \cup {"."}

\* the word of the status message
Domain(c) ==
    CASE c \in {"BinToDec", "BinToHex"} -> "binary"
      [] c \in {"DecToBin", "DecToHex", "DecToExp"} -> "decimal"
      [] c \in {"HexToBin", "HexToDec"} -> "hexadecimal"
      [] c = "ExpToDec" -> "exponential"

----------------------------------------------------------------------------
(* Actions *)

\* the host calls run(edit) of command c: "num_skip = 0" up to the loop
Invoke(c) ==
    /\ pc \in {"idle", "done"}
    /\ Len(runs) < MaxRuns
    /\ cmd' = c
    /\ num_skip' = 0
    /\ i' = 1
    /\ pc' = "loop"
    /\ replaced' = {}
    /\ start' = [text |-> text, sels |-> sels, nstatus |-> Len(status)]
    /\ UNCHANGED <<text, sels, settings, cur, base, exp, status, runs>>

\* Finish with an except branch that passes without counting
FinishUncounted(outcome) ==
    /\ IF outcome.ok
       THEN /\ text' = Replace(text, outcome.val.region, outcome.val.out)
            /\ sels' = SelsAfter(sels, text, outcome.val.region, outcome.val.out)
            /\ replaced' = replaced \cup {i}
       ELSE UNCHANGED <<text, sels, replaced>>
    /\ num_skip' = num_skip
    /\ i' = i + 1
    /\ pc' = "loop"
    /\ UNCHANGED <<settings, cmd, status, runs, start>>

\* the end of one iteration: view.replace, or "except: num_skip += 1"
Finish(outcome) ==
    /\ IF outcome.ok
       THEN /\ text' = Replace(text, outcome.val.region, outcome.val.out)
            /\ sels' = SelsAfter(sels, text, outcome.val.region, outcome.val.out)
            /\ replaced' = replaced \cup {i}
            /\ num_skip' = num_skip
       ELSE /\ num_skip' = num_skip + 1
            /\ UNCHANGED <<text, sels, replaced>>
    /\ i' = i + 1
    /\ pc' = "loop"
    /\ UNCHANGED <<settings, cmd, status, runs, start>>

\* the selected text is longer than the model converts: the run goes on
\* outside the model
Abandon ==
    /\ pc' = "unmodelled"
    /\ UNCHANGED <<text, sels, settings, cmd, i, num_skip, status,
                   replaced, runs, start>>

\* the longest text the loop body may read for the selection sel
Reach(t, sel) ==
    IF Empty(sel)
    THEN LET w == ViewWord(t, sel) IN Substr(t, Region(w.a - 1, w.b + 1))
    ELSE Substr(t, sel)

\* one iteration of the loop of an integer command
Iterate(outcome) ==
    /\ pc = "loop"
    /\ i <= Len(sels)
    /\ IF Len(Reach(text, sels[i])) > MaxToken
       THEN Abandon
       ELSE Finish(outcome)
    /\ UNCHANGED <<cur, base, exp>>

BinToDec ==
    /\ cmd = "BinToDec"
    /\ Iterate(BinToDecBody(text, sels[i], settings))

BinToHex ==
    /\ cmd = "BinToHex"
    /\ Iterate(BinToHexBody(text, sels[i], settings))

DecToBin ==
    /\ cmd = "DecToBin"
    /\ Iterate(DecToBinBody(text, sels[i], settings))

DecToHex ==
    /\ cmd = "DecToHex"
    /\ Iterate(DecToHexBody(text, sels[i], settings))

HexToBin ==
    /\ cmd = "HexToBin"
    /\ Iterate(HexToBinBody(text, sels[i], settings))

HexToDec ==
    /\ cmd = "HexToDec"
    /\ Iterate(HexToDecBody(text, sels[i], settings))


\* ExpToDec, DecToExp: "if sel.empty(): sel = view.word(sel)"
ExpExpand ==
    /\ pc = "loop"
    /\ cmd \in {"ExpToDec", "DecToExp"}
    /\ i <= Len(sels)
    /\ IF Empty(sels[i])
       THEN cur' = ViewWord(text, sels[i]) /\ pc' = "scan_a"
       ELSE cur' = sels[i] /\ pc' = "parse"
    /\ UNCHANGED <<text, sels, settings, cmd, i, base, exp,
                   num_skip, status, replaced, runs, start>>

\* "while view.substr(sel.a - 1) in ...: sel.a -= 1"
ScanA ==
    /\ pc = "scan_a"
    /\ IF At(text, cur.a - 1) \in ScanChars(cmd)
       THEN cur' = Region(cur.a - 1, cur.b) /\ pc' = pc
       ELSE cur' = cur /\ pc' = "scan_b"
    /\ UNCHANGED <<text, sels, settings, cmd, i, base, exp,
                   num_skip, status, replaced, runs, start>>

\* "while view.substr(sel.b) in ...: sel.b += 1"
ScanB ==
    /\ pc = "scan_b"
    /\ IF At(text, cur.b) \in ScanChars(cmd)
       THEN cur' = Region(cur.a, cur.b + 1) /\ pc' = pc
       ELSE cur' = cur /\ pc' = "parse"
    /\ UNCHANGED <<text, sels, settings, cmd, i, base, exp,
                   num_skip, status, replaced, runs, start>>

\* ExpToDec: match, convert, round, replace
ExpToDec ==
    /\ pc = "parse"
    /\ cmd = "ExpToDec"
    /\ IF ExpBeyond(text, cur, settings)
       THEN Abandon
       ELSE Finish(ExpToDecBody(text, cur, settings))
    /\ UNCHANGED <<cur, base, exp>>

\* DecToExp: "base = float(view.substr(sel)); exp = 0"
DecToExpParse ==
    /\ pc = "parse"
    /\ cmd = "DecToExp"
    /\ LET f == IF Len(Substr(text, cur)) > MaxToken THEN Raise
                ELSE PyFloat(Substr(text, cur))
       IN  IF Len(Substr(text, cur)) > MaxToken \/ (f.ok /\ ~NormExact(f.val))
           THEN Abandon /\ UNCHANGED <<cur, base, exp>>
           ELSE IF f.ok
           THEN /\ base' = f.val
                /\ exp' = 0
                /\ pc' = "div"
                /\ UNCHANGED <<text, sels, settings, cmd, i, cur,
                               num_skip, status, replaced, runs, start>>
           ELSE /\ Finish(Raise)
                /\ UNCHANGED <<cur, base, exp>>

\* exp + d, kept within -ExpCap..ExpCap: a loop that runs on with the same
\* base beyond the cap repeats one state
Capped(x) == IF x > ExpCap THEN ExpCap ELSE IF x < 0 - ExpCap THEN 0 - ExpCap ELSE x

\* "while base > 10: base /= 10; exp += 1"
DecToExpDiv ==
    /\ pc = "div"
    /\ IF FloatGt10(base)
       THEN base' = FloatDiv10(base) /\ exp' = Capped(exp + 1) /\ pc' = pc
       ELSE base' = base /\ exp' = exp /\ pc' = "mul"
    /\ UNCHANGED <<text, sels, settings, cmd, i, cur,
                   num_skip, status, replaced, runs, start>>

\* "while base < 1: base *= 10; exp -= 1"
DecToExpMul ==
    /\ pc = "mul"
    /\ IF FloatLt1(base)
       THEN base' = FloatMul10(base) /\ exp' = Capped(exp - 1) /\ pc' = pc
       ELSE base' = base /\ exp' = exp /\ pc' = "emit"
    /\ UNCHANGED <<text, sels, settings, cmd, i, cur,
                   num_skip, status, replaced, runs, start>>

\* DecToExp: "base = str(base)...; view.replace(...)"
DecToExpEmit ==
    /\ pc = "emit"
    /\ Finish(DecToExpBody(cur, base, exp, settings))
    /\ UNCHANGED <<cur, base, exp>>

\* after the loop: "if num_skip > 0: sublime.status_message(...)", return
Report ==
    /\ pc = "loop"
    /\ i > Len(sels)
    /\ status' = IF num_skip > 0
                 THEN Append(status, [count |-> num_skip, domain |-> Domain(cmd)])
                 ELSE status
    /\ runs' = Append(runs, [cmd |-> cmd, before |-> start.text, sels |-> start.sels,
                             after |-> text, skipped |-> num_skip,
                             replaced |-> replaced])
    /\ pc' = "done"
    /\ UNCHANGED <<text, sels, settings, cmd, i, cur, base, exp,
                   num_skip, replaced, start>>

Next ==
    \/ \E c \in Commands : Invoke(c)
    \/ BinToDec
    \/ BinToHex
    \/ DecToBin
    \/ DecToHex
    \/ HexToBin
    \/ HexToDec
    \/ ExpExpand
    \/ ScanA
    \/ ScanB
    \/ ExpToDec
    \/ DecToExpParse
    \/ DecToExpDiv
    \/ DecToExpMul
    \/ DecToExpEmit
    \/ Report

Spec == Init /\ [][Next]_vars

\* the documents the termination of a run is checked on
TermDocs ==
    {<<"0">>,
     <<"-", "5">>,
     <<"1", "4", "2", "0">>,
     <<"0", ".", "0", "0", "5">>,
     <<"1", ".", "4", "2", "e", "3">>,
     <<"f", "f">>}

TermInit ==
    /\ Init
    /\ text \in TermDocs
    /\ settings = DefaultSettings

\* the scheduling of a run method: a loop of DecToExp that can take its
\* next step takes it
TermSpec == TermInit /\ [][Next]_vars /\ WF_vars(DecToExpDiv) /\ WF_vars(DecToExpMul)

----------------------------------------------------------------------------
(* Properties of a run.  A record of runs is one finished invocation:      *)
(* the command, the buffer and the selections it started from, the buffer  *)
(* it left, its skip count and the selections it replaced.  The record is   *)
(* written when the invocation returns, so what holds of runs is stated of *)
(* the states with pc = "done".                                            *)

\* the run started from one selection, the whole of a non-empty buffer
WholeBuffer(run) ==
    /\ run.before # <<>>
    /\ run.sels = <<Region(0, Len(run.before))>>

\* the positions of the run method inside an invocation
Running == {"loop", "scan_a", "scan_b", "parse", "div", "mul", "emit"}

\* C1: within an invocation the selections are visited one by one in order;
\* each visited selection was either replaced or counted as a skip, so the
\* skip counter is the number of visited selections that were not replaced;
\* no status message is emitted while the loop runs, and the finished
\* invocation has emitted exactly one message, which names the skip count,
\* when the count is positive and none when it is zero.
C1_SkipAccounting ==
    /\ pc \in Running \cup {"done", "unmodelled"} =>
          /\ i \in 1..(Len(sels) + 1)
          /\ replaced \subseteq 1..(i - 1)
          /\ num_skip = (i - 1) - Cardinality(replaced)
    /\ pc \in Running \cup {"unmodelled"} => Len(status) = start.nstatus
    /\ pc = "done" =>
          /\ i = Len(sels) + 1
          /\ num_skip = 0 => Len(status) = start.nstatus
          /\ num_skip > 0 =>
                /\ Len(status) = start.nstatus + 1
                /\ status[Len(status)].count = num_skip
          /\ runs[Len(runs)].skipped = Len(sels) - Cardinality(runs[Len(runs)].replaced)

\* an invocation over two selections is done: one was replaced, the other
\* skipped and reported
C1_Witness ==
    /\ pc = "done"
    /\ Len(sels) = 2
    /\ Cardinality(replaced) = 1
    /\ num_skip = 1
    /\ Len(status) = start.nstatus + 1
    /\ status[Len(status)].count = 1

\* the number a run of binary digits stands for
RECURSIVE BitsValue(_)
BitsValue(s) ==
    IF s = <<>> THEN 0
    ELSE 2 * BitsValue(SubSeq(s, 1, Len(s) - 1)) + (IF s[Len(s)] = "1" THEN 1 ELSE 0)

\* the lowercase hexadecimal digits of n >= 0, no leading zero
RECURSIVE LowerHex(_)
LowerHex(n) ==
    IF n < 16 THEN <<HexDigitSeq[n + 1]>>
    ELSE LowerHex(n \div 16) \o <<HexDigitSeq[(n % 16) + 1]>>

\* the decimal digits of n >= 0, no leading zero
RECURSIVE Decimal(_)
Decimal(n) ==
    IF n < 10 THEN <<HexDigitSeq[n + 1]>>
    ELSE Decimal(n \div 10) \o <<HexDigitSeq[(n % 10) + 1]>>

\* C7: under the default configuration, BinToHex run on a selection that is
\* a non-empty run of the digits 0 and 1 leaves "0x" followed by the
\* lowercase hexadecimal digits of the value of the bits, and BinToDec
\* leaves the decimal digits of that value; neither skips.
C7_BinaryConversions ==
    pc = "done" =>
        \A k \in 1..Len(runs) :
            (/\ settings = DefaultSettings
             /\ WholeBuffer(runs[k])
             /\ runs[k].before \in BinDocs) =>
                /\ runs[k].cmd = "BinToHex" =>
                      /\ runs[k].after = <<"0", "x">> \o LowerHex(BitsValue(runs[k].before))
                      /\ runs[k].skipped = 0
                /\ runs[k].cmd = "BinToDec" =>
                      /\ runs[k].after = Decimal(BitsValue(runs[k].before))
                      /\ runs[k].skipped = 0

\* BinToHex has turned the bits 1011 into 0xb
C7_Witness ==
    /\ pc = "done"
    /\ settings = DefaultSettings
    /\ Len(runs) = 1
    /\ runs[1].cmd = "BinToHex"
    /\ WholeBuffer(runs[1])
    /\ runs[1].before = <<"1", "0", "1", "1">>
    /\ text = <<"0", "x", "b">>

\* the digit a hexadecimal character of either case stands for
HexCharValue(c) ==
    CHOOSE d \in 0..15 : HexDigitSeq[d + 1] = c \/ HexUpperSeq[d + 1] = c

HexChars == {HexDigitSeq[d] : d \in 1..16} \cup {HexUpperSeq[d] : d \in 1..16}

\* s without an opening p and without a closing q, when it has them
Within(s, p, q) ==
    LET a == IF StartsWith(s, p) THEN Drop(s, Len(p)) ELSE s
    IN  IF q # <<>> /\ Len(a) >= 1 /\ a[Len(a)] = q[1] THEN Take(a, Len(a) - 1) ELSE a

\* s is d or more characters, all of chars
AllOf(s, chars) == s # <<>> /\ \A k \in 1..Len(s) : s[k] \in chars

\* a hexadecimal token: an optional 0x, digits of either case, an optional h
IsHexToken(s) == AllOf(Within(s, <<"0", "x">>, <<"h">>), HexChars)

RECURSIVE HexValue(_)
HexValue(s) ==
    IF s = <<>> THEN 0
    ELSE 16 * HexValue(SubSeq(s, 1, Len(s) - 1)) + HexCharValue(s[Len(s)])

\* C3: under the default configuration, HexToDec run on a selection that is
\* a hexadecimal token (an optional 0x prefix, digits 0-9 and a-f in either
\* letter case, an optional h suffix) leaves the decimal digits of its value
\* and skips nothing, whatever the letter case.
C3_HexEitherCase ==
    \A k \in 1..Len(runs) :
        (/\ settings = DefaultSettings
         /\ runs[k].cmd = "HexToDec"
         /\ WholeBuffer(runs[k])
         /\ IsHexToken(runs[k].before)) =>
            /\ runs[k].skipped = 0
            /\ runs[k].after = Decimal(HexValue(Within(runs[k].before, <<"0", "x">>, <<"h">>)))

\* a decimal integer as str prints it: an optional minus, no leading zero
IsDecimalInteger(s) ==
    LET digits == Within(s, <<"-">>, <<>>)
    IN  /\ AllOf(digits, DigitChars)
        /\ Len(digits) = 1 \/ digits[1] # "0"
        /\ s # <<"-", "0">>

\* C4: under the default configuration, DecToHex run on a selection that is
\* a decimal integer, followed by HexToDec on the result, leaves the
\* original integer, and neither run skips.
C4_DecHexRoundTrip ==
    (/\ Len(runs) >= 2
     /\ settings = DefaultSettings
     /\ runs[1].cmd = "DecToHex"
     /\ runs[2].cmd = "HexToDec"
     /\ WholeBuffer(runs[1])
     /\ WholeBuffer(runs[2])
     /\ IsDecimalInteger(runs[1].before)) =>
        /\ runs[1].skipped = 0
        /\ runs[2].skipped = 0
        /\ runs[2].after = runs[1].before

\* s reads as a positive decimal value between 1e-3 and 1e15, inside the
\* documented range 9.0e-4 .. 9.0e15
InExpRange(s) ==
    LET f == PyFloat(s)
    IN  /\ AllOf(s, DigitChars \cup {"."})
        /\ f.ok
        /\ f.val.kind = "fin"
        /\ f.val.m > 0
        /\ f.val.e + NumDigits(f.val.m) - 1 \in -3..14

\* C5: under the default configuration, DecToExp run on a selection that is
\* a decimal value of the documented range, followed by ExpToDec on the
\* result, leaves text of the original value, and neither run skips.
C5_DecExpRoundTrip ==
    (/\ Len(runs) >= 2
     /\ settings = DefaultSettings
     /\ runs[1].cmd = "DecToExp"
     /\ runs[2].cmd = "ExpToDec"
     /\ WholeBuffer(runs[1])
     /\ WholeBuffer(runs[2])
     /\ InExpRange(runs[1].before)) =>
        /\ runs[1].skipped = 0
        /\ runs[2].skipped = 0
        /\ PyFloat(runs[2].after) = PyFloat(runs[1].before)

\* the commands that read and write integers
IntegerCommands == {"BinToDec", "BinToHex", "DecToBin", "DecToHex", "HexToBin", "HexToDec"}

\* s is, from its first to its last character, one token of the domain
\* the command c reads
IsTokenOf(c, s) ==
    CASE c \in {"BinToDec", "BinToHex"} -> AllOf(Within(s, <<"0", "b">>, <<>>), BinChars)
      [] c \in {"HexToBin", "HexToDec"} -> IsHexToken(s)
      [] c \in {"DecToBin", "DecToHex"} ->
            AllOf(IF s # <<>> /\ s[1] \in {"+", "-"} THEN Drop(s, 1) ELSE s, DigitChars)

\* C10: under the default configuration, an integer command that replaces a
\* non-empty selection has read the whole of the selection as its numeric
\* token: it never replaces a selection that holds more than the token by
\* the conversion of the token alone.
C10_WholeSelectionParsed ==
    \A k \in 1..Len(runs) :
        (/\ settings = DefaultSettings
         /\ runs[k].cmd \in IntegerCommands
         /\ Len(runs[k].sels) = 1
         /\ ~Empty(runs[k].sels[1])
         /\ runs[k].replaced = {1}) =>
            IsTokenOf(runs[k].cmd, Substr(runs[k].before, runs[k].sels[1]))

\* what the loop body of the integer command c does with the selection sel
\* of the buffer t
Planned(c, t, sel, st) ==
    CASE c = "BinToDec" -> BinToDecBody(t, sel, st)
      [] c = "BinToHex" -> BinToHexBody(t, sel, st)
      [] c = "DecToBin" -> DecToBinBody(t, sel, st)
      [] c = "DecToHex" -> DecToHexBody(t, sel, st)
      [] c = "HexToBin" -> HexToBinBody(t, sel, st)
      [] c = "HexToDec" -> HexToDecBody(t, sel, st)

\* the range a planned conversion replaces, and the text it leaves there
PlannedRegion(t, sel, plan) == IF plan.ok THEN plan.val.region ELSE sel
PlannedText(t, sel, plan) == IF plan.ok THEN plan.val.out ELSE Substr(t, sel)

\* the buffer t with the ranges r1 and r2, r1 before r2, replaced by o1, o2
Splice(t, r1, o1, r2, o2) ==
    Take(t, r1.a) \o o1 \o Substr(t, Region(r1.b, r2.a)) \o o2 \o Drop(t, r2.b)

\* C9: an integer command run over two selections that do not overlap, and
\* whose ranges to replace do not overlap, leaves the buffer in which each
\* range holds the result of converting that selection's own text and the
\* rest is untouched: converting one selection changes neither the text,
\* nor the outcome, nor the replaced range of the other.
C9_SelectionsIndependent ==
    \A k \in 1..Len(runs) :
        (/\ runs[k].cmd \in IntegerCommands
         /\ Len(runs[k].sels) = 2) =>
            LET t == runs[k].before
                s1 == runs[k].sels[1]
                s2 == runs[k].sels[2]
                p1 == Planned(runs[k].cmd, t, s1, settings)
                p2 == Planned(runs[k].cmd, t, s2, settings)
                r1 == PlannedRegion(t, s1, p1)
                r2 == PlannedRegion(t, s2, p2)
            IN  (/\ Before(s1, s2)
                 /\ 0 <= r1.a
                 /\ r1.b <= r2.a
                 /\ r2.b <= Len(t)) =>
                    /\ runs[k].after = Splice(t, r1, PlannedText(t, s1, p1),
                                              r2, PlannedText(t, s2, p2))
                    /\ (1 \in runs[k].replaced) = p1.ok
                    /\ (2 \in runs[k].replaced) = p2.ok

\* C2: every invocation terminates, so each loop of a run method that is
\* entered is left: DecToExp, once it has read its value, gets through the
\* two loops that bring the value between 1 and 10 and goes on to write
\* the result.
C2_LoopsTerminate == (pc \in {"div", "mul"}) ~> (pc = "emit")

\* the digits a token of the domain the command c reads is made of
DomainDigits(c) ==
    CASE c \in {"BinToDec", "BinToHex"} -> {"0", "1"}
      [] c \in {"HexToBin", "HexToDec"} -> {HexDigitSeq[d] : d \in 1..16}
      [] c \in {"DecToBin", "DecToHex", "ExpToDec"} -> DigitChars
      [] c = "DecToExp" -> DigitChars \cup {"i", "n", "I", "N"}

\* the characters a text the command c converts may open with
StartChars(c) ==
    CASE c \in {"DecToBin", "DecToHex"} -> DigitChars \cup {"+", "-"} \cup SpaceChars
      [] c = "DecToExp" -> DomainDigits(c) \cup {"+", "-", "."} \cup SpaceChars
      [] OTHER -> DomainDigits(c)

\* no selection of the run can match or parse: the buffer holds no digit of
\* the command's domain, or, under the default configuration, the one
\* non-empty selection opens with a character no token opens with
Unmatched(run) ==
    \/ \A k \in 1..Len(run.before) : run.before[k] \notin DomainDigits(run.cmd)
    \/ /\ settings = DefaultSettings
       /\ Len(run.sels) = 1
       /\ ~Empty(run.sels[1])
       /\ Substr(run.before, run.sels[1])[1] \notin StartChars(run.cmd)

SrcKeys == {"convert_src_bin", "convert_src_hex", "convert_src_exp"}
DstKeys == {"convert_dst_bin", "convert_dst_hex", "convert_dst_exp"}

\* the destination key the command c reads, "" when it reads none
DstKeyOf(c) ==
    CASE c \in {"DecToBin", "HexToBin"} -> "convert_dst_bin"
      [] c \in {"BinToHex", "DecToHex"} -> "convert_dst_hex"
      [] c = "DecToExp" -> "convert_dst_exp"
      [] OTHER -> ""

\* configured values that are no pattern and no template: an expression
\* that does not compile, a format code int lacks, a number
InvalidValues == {StrValue(BadSrc), StrValue(BadDst), NumValue}

\* the keys configured with an invalid value
InvalidKeys == {key \in Keys : settings[key] \in InvalidValues}

\* the run went as the integer command does under no configuration at all
AsUnconfigured(run) ==
    LET plan == Planned(run.cmd, run.before, run.sels[1], DefaultSettings)
    IN  /\ run.after = (IF plan.ok THEN Replace(run.before, plan.val.region, plan.val.out)
                        ELSE run.before)
        /\ run.skipped = (IF plan.ok THEN 0 ELSE 1)

====
